---- MODULE Spec2Model ----
(***************************************************************************)
(* Model of the traefik-openai-header middleware (package                  *)
(* traefik_openai_header): a handler built by New from a Config, whose     *)
(* ServeHTTP classifies a request by its RequestURI, reads the body,       *)
(* decodes it with encoding/json, writes request headers and calls the     *)
(* next handler.                                                           *)
(*                                                                         *)
(* A body is a sequence of JSON tokens (one token stands for one or more   *)
(* bytes); a RequestURI and a pattern are sequences of path tokens.        *)
(***************************************************************************)
EXTENDS Integers, Sequences, FiniteSets, TLC

\* Largest number of members in a generated JSON object body.
MaxMembers == 2

ParseFailureHeader == "X-OpenAI-Parse-Failure"

(***************************************************************************)
(* JSON text                                                               *)
(***************************************************************************)
\* A JSON value as written in the body: its kind and its literal text.
JStr(s) == [ty |-> "string", lit |-> s]
JNum(s) == [ty |-> "number", lit |-> s]
JBool(s) == [ty |-> "bool", lit |-> s]
JNull == [ty |-> "null", lit |-> "null"]
JObj == [ty |-> "object", lit |-> "{}"]

\* Body tokens.  Every token is a record of the same shape.
Tok(t) == [t |-> t, k |-> "", v |-> JNull]
LBrace == Tok("{")
RBrace == Tok("}")
LBracket == Tok("[")
RBracket == Tok("]")
NullTok == Tok("null")
Garbage == Tok("INVALID JSON")
Member(k, v) == [t |-> "member", k |-> k, v |-> v]

ObjectBody(ms) == <<LBrace>> \o ms \o <<RBrace>>

\* encoding/json checkValid, on the token forms the model generates: a
\* top-level null, an array, or a brace-delimited list of members.
IsMembers(ms) == \A i \in 1..Len(ms) : ms[i].t = "member"

checkValid(data) ==
    \/ data = <<NullTok>>
    \/ data = <<LBracket, RBracket>>
    \/ /\ Len(data) >= 2
       /\ data[1] = LBrace
       /\ data[Len(data)] = RBrace
       /\ IsMembers(SubSeq(data, 2, Len(data) - 1))

MembersOf(data) == SubSeq(data, 2, Len(data) - 1)

(***************************************************************************)
(* Number conversion: strconv.ParseFloat / ParseInt on the literal, and    *)
(* fmt.Sprintf("%v", x) on the stored value.  A float32 is kept in tenths. *)
(***************************************************************************)
IntLiterals == {"0", "5"}
FloatLiterals == {"0", "5", "1.0", "0.7"}

ParseFloat(lit) ==
    CASE lit = "0" -> 0
      [] lit = "5" -> 50
      [] lit = "1.0" -> 10
      [] lit = "0.7" -> 7

ParseInt(lit) ==
    CASE lit = "0" -> 0
      [] lit = "5" -> 5

FormatFloat(x) ==
    CASE x = 0 -> "0"
      [] x = 50 -> "5"
      [] x = 10 -> "1"
      [] x = 7 -> "0.7"

FormatInt(x) ==
    CASE x = 0 -> "0"
      [] x = 5 -> "5"

FormatBool(b) == IF b THEN "true" ELSE "false"

(***************************************************************************)
(* Go values held by the decoded structs                                   *)
(***************************************************************************)
\* A *float32 / *int field (val in tenths for float32) and a *bool field.
NilNum == [isNil |-> TRUE, val |-> 0]
PtrNum(x) == [isNil |-> FALSE, val |-> x]
NilBool == [isNil |-> TRUE, val |-> FALSE]
PtrBool(b) == [isNil |-> FALSE, val |-> b]
\* An interface{} field: the dynamic type and, for a string, its text.
NilIface == [kind |-> "nil", str |-> ""]
Iface(k, s) == [kind |-> k, str |-> s]

\* The fields of chatCompletionRequest that the decoder can fail on or that
\* the handler reads, by JSON key, with the Go type of each.  "messages"
\* is a json.RawMessage (accepts any value); "n" is a *int the handler
\* never reads.  A key outside the struct is skipped by the decoder.
chatCompletionRequest ==
    [model |-> "string", user |-> "string",
     temperature |-> "float32", max_completion_tokens |-> "float32",
     frequency_penalty |-> "float32", presence_penalty |-> "float32",
     top_p |-> "float32", logprobs |-> "int", top_logprobs |-> "int",
     n |-> "int", stream |-> "bool", tool_choice |-> "interface",
     messages |-> "raw"]

chatCompletionModelOnlyRequest == [model |-> "string"]

batchRequest == [completion_window |-> "string", endpoint |-> "string"]

\* The zero value of a Go type.
ZeroOf(gotype) ==
    CASE gotype = "string" -> ""
      [] gotype = "float32" -> NilNum
      [] gotype = "int" -> NilNum
      [] gotype = "bool" -> NilBool
      [] gotype = "interface" -> NilIface
      [] gotype = "raw" -> ""

\* request := T{}
ZeroStruct(schema) == [f \in DOMAIN schema |-> ZeroOf(schema[f])]

(***************************************************************************)
(* encoding/json Unmarshal                                                 *)
(***************************************************************************)
\* Does the JSON value v fit a field of Go type gotype?  (null always does.)
Fits(gotype, v) ==
    \/ v.ty = "null"
    \/ gotype \in {"interface", "raw"}
    \/ gotype = "string" /\ v.ty = "string"
    \/ gotype = "float32" /\ v.ty = "number" /\ v.lit \in FloatLiterals
    \/ gotype = "int" /\ v.ty = "number" /\ v.lit \in IntLiterals
    \/ gotype = "bool" /\ v.ty = "bool"

\* decodeState.literalStore / object on one struct field: the new value of
\* the field.  null clears a pointer or interface and leaves a string as it
\* is; indirect() allocates a nil pointer before the type of the value is
\* looked at, so a mismatched value leaves a pointer to the zero value.
literalStore(gotype, old, v) ==
    CASE gotype = "string" ->
            IF v.ty = "string" THEN v.lit ELSE old
      [] gotype = "float32" ->
            IF v.ty = "null" THEN NilNum
            ELSE IF Fits(gotype, v) THEN PtrNum(ParseFloat(v.lit))
            ELSE IF old.isNil THEN PtrNum(0) ELSE old
      [] gotype = "int" ->
            IF v.ty = "null" THEN NilNum
            ELSE IF Fits(gotype, v) THEN PtrNum(ParseInt(v.lit))
            ELSE IF old.isNil THEN PtrNum(0) ELSE old
      [] gotype = "bool" ->
            IF v.ty = "null" THEN NilBool
            ELSE IF Fits(gotype, v) THEN PtrBool(v.lit = "true")
            ELSE IF old.isNil THEN PtrBool(FALSE) ELSE old
      [] gotype = "interface" ->
            (CASE v.ty = "null" -> NilIface
               [] v.ty = "string" -> Iface("string", v.lit)
               [] v.ty = "object" -> Iface("map", "")
               [] v.ty = "number" -> Iface("float64", "")
               [] v.ty = "bool" -> Iface("bool", ""))
      [] gotype = "raw" -> old

\* UnmarshalTypeError.Error()
UnmarshalTypeError(ty, field) ==
    "json: cannot unmarshal " \o ty \o " into Go struct field " \o field

\* SyntaxError.Error() of checkValid: input that ends inside a value, or a
\* byte that starts no value.
SyntaxError(data) ==
    IF data = <<>> \/ data[1] = LBrace
    THEN "unexpected end of JSON input"
    ELSE "invalid character 'I' looking for beginning of value"

\* decodeState.object: the members in order, each stored in its field; the
\* first type error is kept (saveError) and decoding goes on.
RECURSIVE object(_, _, _)
object(ms, schema, st) ==
    IF ms = <<>> THEN st
    ELSE LET m == Head(ms)
             known == m.k \in DOMAIN schema
             bad == known /\ ~Fits(schema[m.k], m.v)
             val == IF known
                    THEN [st.val EXCEPT
                            ![m.k] = literalStore(schema[m.k], @, m.v)]
                    ELSE st.val
             err == IF bad /\ st.err = ""
                    THEN UnmarshalTypeError(m.v.ty, m.k)
                    ELSE st.err
         IN  object(Tail(ms), schema, [val |-> val, err |-> err])

\* json.Unmarshal(data, &request), request being the zero struct of schema:
\* the struct after the call and the error text ("" for nil).
Unmarshal(data, schema) ==
    LET zero == [val |-> ZeroStruct(schema), err |-> ""]
    IN  IF ~checkValid(data) THEN [zero EXCEPT !.err = SyntaxError(data)]
        ELSE IF data = <<NullTok>> THEN zero
        ELSE IF data[1] = LBracket
             THEN [zero EXCEPT !.err = "json: cannot unmarshal array into Go value"]
        ELSE object(MembersOf(data), schema, zero)

(***************************************************************************)
(* net/http: headers and body streams                                      *)
(***************************************************************************)
\* textproto.CanonicalMIMEHeaderKey on the header names in use: the first
\* letter and every letter after a hyphen upper case, the rest lower case;
\* a name with a byte that is no token character is returned unchanged.
CanonicalMIMEHeaderKey(name) ==
    CASE name = "X-OpenAI-Parse-Failure" -> "X-Openai-Parse-Failure"
      [] name = "X-OpenAI-Model" -> "X-Openai-Model"
      [] name = "X-OpenAI-Frequency-Penalty" -> "X-Openai-Frequency-Penalty"
      [] name = "X-OpenAI-User" -> "X-Openai-User"
      [] name = "X-OpenAI-Temperature" -> "X-Openai-Temperature"
      [] name = "X-OpenAI-Top-P" -> "X-Openai-Top-P"
      [] name = "X-OpenAI-Max-Completion-Tokens" -> "X-Openai-Max-Completion-Tokens"
      [] name = "X-OpenAI-Presence-Penalty" -> "X-Openai-Presence-Penalty"
      [] name = "X-OpenAI-Logprobs" -> "X-Openai-Logprobs"
      [] name = "X-OpenAI-Top-Logprobs" -> "X-Openai-Top-Logprobs"
      [] name = "X-OpenAI-Tool-Choice" -> "X-Openai-Tool-Choice"
      [] name = "X-OpenAI-Stream" -> "X-Openai-Stream"
      [] name = "X-OpenAI-Completion-Window" -> "X-Openai-Completion-Window"
      [] name = "X-OpenAI-Endpoint" -> "X-Openai-Endpoint"
      [] name = "x-openai-user" -> "X-Openai-User"
      [] name = "x-openai-parse-failure" -> "X-Openai-Parse-Failure"
      [] OTHER -> name

\* An http.Header is a function from canonical names to values.
NoHeader == [x \in {} |-> ""]

HeaderSet(header, name, value) ==
    LET key == CanonicalMIMEHeaderKey(name)
    IN  [x \in (DOMAIN header) \cup {key} |->
            IF x = key THEN value ELSE header[x]]

HeaderGet(header, name) ==
    LET key == CanonicalMIMEHeaderKey(name)
    IN  IF key \in DOMAIN header THEN header[key] ELSE ""

HeaderHas(header, name) == CanonicalMIMEHeaderKey(name) \in DOMAIN header

\* A body stream: the tokens it delivers, how many were consumed, and the
\* error a read returns once they are consumed ("" for a clean io.EOF).
Stream(data, err) == [data |-> data, pos |-> 0, err |-> err]

\* io.ReadAll: everything not yet consumed, the read error if any, and the
\* stream left behind (consumed to its end).
ReadAll(body) ==
    [data |-> SubSeq(body.data, body.pos + 1, Len(body.data)),
     err |-> body.err,
     rest |-> [body EXCEPT !.pos = Len(body.data)]]

\* A reader over data that was already read to its end.
NopCloserConsumed(data) == [data |-> data, pos |-> Len(data), err |-> ""]

\* io.NopCloser(bytes.NewReader(data))
NopCloser(data) == Stream(data, "")

(***************************************************************************)
(* regexp.MatchString on token sequences.  A pattern is a sequence of      *)
(* literal tokens and ".*"; the token "(" stands for a pattern that does   *)
(* not compile.  The match is unanchored, as in Go.                        *)
(***************************************************************************)
RECURSIVE MatchHere(_, _)
MatchHere(p, s) ==
    IF p = <<>> THEN TRUE
    ELSE IF Head(p) = ".*"
         THEN \E k \in 0..Len(s) : MatchHere(Tail(p), SubSeq(s, k + 1, Len(s)))
    ELSE /\ s # <<>>
         /\ Head(s) = Head(p)
         /\ MatchHere(Tail(p), Tail(s))

Compiles(p) == \A i \in 1..Len(p) : p[i] # "("

\* A match that takes a pattern that does not compile for a matching one.
MatchStringErrorMatches(pattern, s) ==
    IF ~Compiles(pattern)
    THEN [ok |-> TRUE, err |-> "error parsing regexp: missing closing )"]
    ELSE [ok |-> \E k \in 0..Len(s) : MatchHere(pattern, SubSeq(s, k + 1, Len(s))),
          err |-> ""]

MatchString(pattern, s) ==
    IF ~Compiles(pattern)
    THEN [ok |-> FALSE, err |-> "error parsing regexp: missing closing )"]
    ELSE [ok |-> \E k \in 0..Len(s) : MatchHere(pattern, SubSeq(s, k + 1, Len(s))),
          err |-> ""]

(***************************************************************************)
(* Config, CreateConfig, New                                               *)
(***************************************************************************)
ChatCompletionsPattern == <<"/v1", "/chat", "/completions">>
BatchesPattern == <<"/v1", "/batches">>

DefaultFields ==
    [model |-> "X-OpenAI-Model",
     frequency_penalty |-> "X-OpenAI-Frequency-Penalty",
     user |-> "X-OpenAI-User",
     temperature |-> "X-OpenAI-Temperature",
     top_p |-> "X-OpenAI-Top-P",
     max_completion_tokens |-> "X-OpenAI-Max-Completion-Tokens",
     presence_penalty |-> "X-OpenAI-Presence-Penalty",
     logprobs |-> "X-OpenAI-Logprobs",
     top_logprobs |-> "X-OpenAI-Top-Logprobs",
     tool_choice |-> "X-OpenAI-Tool-Choice",
     stream |-> "X-OpenAI-Stream",
     completion_window |-> "X-OpenAI-Completion-Window",
     endpoint |-> "X-OpenAI-Endpoint"]

Config(fields, requestUri, chatUri, batchUri) ==
    [isNil |-> FALSE, RequestFields |-> fields, RequestURIRegex |-> requestUri,
     ChatCompletionUriRegex |-> chatUri, BatchUriRegex |-> batchUri]

NilConfig == [Config(NoHeader, <<>>, <<>>, <<>>) EXCEPT !.isNil = TRUE]

CreateConfig ==
    Config(DefaultFields, ChatCompletionsPattern, ChatCompletionsPattern,
           BatchesPattern)

\* New: the generic pattern is taken when it is not empty, the
\* chat-completion pattern otherwise.
New(config) ==
    LET c == IF config.isNil THEN CreateConfig ELSE config
        chatCompletionUri == IF c.RequestURIRegex # <<>>
                             THEN c.RequestURIRegex
                             ELSE c.ChatCompletionUriRegex
    IN  [requestFields |-> c.RequestFields,
         requestURIRegex |-> chatCompletionUri,
         batchRequestURIRegex |-> c.BatchUriRegex]

\* fmt.Sprintf("%v", e.requestFields[field]): the mapped name, or "<nil>"
\* for a field the map has no entry for.
Sprintf(requestFields, field) ==
    IF field \in DOMAIN requestFields THEN requestFields[field] ELSE "<nil>"

(***************************************************************************)
(* The handler.  While ServeHTTP runs, a request is its header, its body   *)
(* stream and the log of what the handler did to it, in order.             *)
(***************************************************************************)
StatusInternalServerError == 500

Event(op, name, value) == [op |-> op, name |-> name, value |-> value]

\* r.Header.Set(name, value)
Set(r, name, value) ==
    [r EXCEPT !.Header = HeaderSet(@, name, value),
              !.log = Append(@, Event("Header.Set",
                                      CanonicalMIMEHeaderKey(name), value))]

\* The guards of the optional fields: request.User != "", request.X != nil,
\* request.ToolChoice.(string).
notEmpty(str) == str # ""

\* A pointer guard that takes a zero or false value for an absent one.
notNilNonZero(ptr) == ~ptr.isNil /\ ToString(ptr.val) \notin {"0", "FALSE"}

notNil(ptr) == ~ptr.isNil

\* A tool_choice guard that accepts any non-nil value.
isNotNilIface(iface) == iface.kind # "nil"

isString(iface) == iface.kind = "string"

SetIf(cond, r, name, value) == IF cond THEN Set(r, name, value) ELSE r

\* The guarded writes of lines 197-235 of handleChatCompletionRequest, in
\* the order of the code: the guard, the header name and the value of each.
Write(cond, name, value) == [cond |-> cond, name |-> name, value |-> value]

fieldWrites(f, request) ==
    <<Write(notEmpty(request.user), Sprintf(f, "user"), request.user),
      Write(notNil(request.temperature), Sprintf(f, "temperature"),
            FormatFloat(request.temperature.val)),
      Write(notNil(request.max_completion_tokens),
            Sprintf(f, "max_completion_tokens"),
            FormatFloat(request.max_completion_tokens.val)),
      Write(notNil(request.logprobs), Sprintf(f, "logprobs"),
            FormatInt(request.logprobs.val)),
      Write(notNil(request.top_logprobs), Sprintf(f, "top_logprobs"),
            FormatInt(request.top_logprobs.val)),
      Write(isString(request.tool_choice), Sprintf(f, "tool_choice"),
            request.tool_choice.str),
      Write(notNil(request.frequency_penalty), Sprintf(f, "frequency_penalty"),
            FormatFloat(request.frequency_penalty.val)),
      Write(notNil(request.presence_penalty), Sprintf(f, "presence_penalty"),
            FormatFloat(request.presence_penalty.val)),
      Write(notNil(request.top_p), Sprintf(f, "top_p"),
            FormatFloat(request.top_p.val)),
      Write(notNil(request.stream), Sprintf(f, "stream"),
            FormatBool(request.stream.val))>>

RECURSIVE applyWrites(_, _)
applyWrites(r, ws) ==
    IF ws = <<>> THEN r
    ELSE applyWrites(SetIf(Head(ws).cond, r, Head(ws).name, Head(ws).value),
                     Tail(ws))

\* Lines 182-195: the full decode, and after its failure the diagnostic
\* header and the model-only decode.
decodeModel(f, data, full, r) ==
    IF full.err # ""
    THEN IF Unmarshal(data, chatCompletionModelOnlyRequest).err # ""
         THEN Set(Set(r, ParseFailureHeader, full.err),
                  ParseFailureHeader, "Unknown model")
         ELSE Set(Set(r, ParseFailureHeader, full.err),
                  Sprintf(f, "model"), full.val.model)
    ELSE Set(r, Sprintf(f, "model"), full.val.model)

handleChatCompletionRequest(e, data, r) ==
    LET full == Unmarshal(data, chatCompletionRequest)
    IN  applyWrites(decodeModel(e.requestFields, data, full, r),
                    fieldWrites(e.requestFields, full.val))

\* A batch extractor that, like the call-completion extractor, goes on to
\* its field writes after a failed decode.
handleBatchRequestThenWrites(e, data, r) ==
    LET dec == Unmarshal(data, batchRequest)
        request == dec.val
        f == e.requestFields
        failed == IF dec.err # ""
                  THEN Set(r, ParseFailureHeader, dec.err)
                  ELSE r
    IN  Set(Set(failed, Sprintf(f, "completion_window"),
                request.completion_window),
            Sprintf(f, "endpoint"), request.endpoint)

handleBatchRequest(e, data, r) ==
    LET dec == Unmarshal(data, batchRequest)
        request == dec.val
        f == e.requestFields
    IN  IF dec.err # ""
        THEN Set(r, ParseFailureHeader, dec.err)
        ELSE Set(Set(r, Sprintf(f, "completion_window"),
                     request.completion_window),
                 Sprintf(f, "endpoint"), request.endpoint)

\* r.Body = io.NopCloser(bytes.NewReader(data))
replaceBody(r, data) ==
    [r EXCEPT !.Body = NopCloser(data),
              !.log = Append(@, Event("Body.Replace", "", ""))]

\* http.Error(w, err.Error(), http.StatusInternalServerError): the status
\* is written once; the handler goes on after the call.
Error(r, err) ==
    [r EXCEPT !.status = IF @ = 0 THEN StatusInternalServerError ELSE @,
              !.log = Append(@, Event("http.Error", "", err))]

\* The next handler called only when no parse failure was recorded.
callNextUnlessFailed(r) ==
    IF HeaderHas(r.Header, ParseFailureHeader)
    THEN r
    ELSE [r EXCEPT !.nextCalls = @ + 1,
                   !.nextHeader = r.Header,
                   !.nextBody = ReadAll(r.Body).data,
                   !.Body = ReadAll(r.Body).rest,
                   !.log = Append(@, Event("next.ServeHTTP", "", ""))]

\* e.next.ServeHTTP(w, r): the next handler sees the header as it is now
\* and reads the body stream as it is now.
callNext(r) ==
    [r EXCEPT !.nextCalls = @ + 1,
              !.nextHeader = r.Header,
              !.nextBody = ReadAll(r.Body).data,
              !.Body = ReadAll(r.Body).rest,
              !.log = Append(@, Event("next.ServeHTTP", "", ""))]

\* The classification of ServeHTTP: both patterns against r.RequestURI.
isChatCompletionRequest(e, req) ==
    MatchString(e.requestURIRegex, req.RequestURI).ok
isBatchRequest(e, req) ==
    MatchString(e.batchRequestURIRegex, req.RequestURI).ok

\* A classification that leaves the method out of line 154.
ClassifiedAnyMethod(e, req) ==
    isChatCompletionRequest(e, req) \/ isBatchRequest(e, req)

Classified(e, req) ==
    (isChatCompletionRequest(e, req) \/ isBatchRequest(e, req))
        /\ req.Method = "POST"

\* The extractors run on any body.
hasDataAlways(data) == TRUE

\* len(data) > 0, the guard in front of both extractors.
hasData(data) == Len(data) > 0

\* Lines 159-165: the read error and the empty body.
onReadError(r, err) == IF err # "" THEN Error(r, err) ELSE r
onEmptyBody(r, data) ==
    IF Len(data) < 1 THEN Set(r, ParseFailureHeader, "empty body") ELSE r

\* Lines 167-173: the two extractors, each under its guard.
chatStep(e, req, data, r) ==
    IF hasData(data) /\ DOMAIN e.requestFields # {}
           /\ isChatCompletionRequest(e, req)
    THEN handleChatCompletionRequest(e, data, r) ELSE r
batchStep(e, req, data, r) ==
    IF hasData(data) /\ DOMAIN e.requestFields # {}
           /\ isBatchRequest(e, req)
    THEN handleBatchRequest(e, data, r) ELSE r

\* The classified block with the two extractors in the other order.
inspectBatchFirst(e, req, r) ==
    LET read == ReadAll(r.Body)
    IN  replaceBody(
            chatStep(e, req, read.data,
                batchStep(e, req, read.data,
                    onEmptyBody(
                        onReadError(
                            [r EXCEPT !.Body = read.rest,
                                      !.log = Append(@, Event("io.ReadAll", "",
                                                              read.err))],
                            read.err),
                        read.data))),
            read.data)

\* The block of ServeHTTP under the classification test.
inspect(e, req, r) ==
    LET read == ReadAll(r.Body)
    IN  replaceBody(
            batchStep(e, req, read.data,
                chatStep(e, req, read.data,
                    onEmptyBody(
                        onReadError(
                            [r EXCEPT !.Body = read.rest,
                                      !.log = Append(@, Event("io.ReadAll", "",
                                                              read.err))],
                            read.err),
                        read.data))),
            read.data)

\* ServeHTTP on the request req: the request as the next handler leaves it.
Serve(e, req) ==
    LET r == [Header |-> req.Header, Body |-> req.Body, log |-> <<>>,
              status |-> 0, nextCalls |-> 0, nextHeader |-> NoHeader,
              nextBody |-> <<>>]
    IN  callNext(IF Classified(e, req) THEN inspect(e, req, r) ELSE r)

(***************************************************************************)
(* Requests                                                                *)
(***************************************************************************)
\* The JSON values tried for a key of each Go type: values that fit, the
\* zero or empty value, null, and one value of the wrong type.
ValuesFor(gotype) ==
    CASE gotype = "string" -> {JStr("a"), JStr(""), JNull, JNum("0")}
      [] gotype = "float32" -> {JNum("0"), JNum("0.7"), JNull, JStr("a")}
      [] gotype = "int" -> {JNum("0"), JNum("5"), JNull, JNum("1.0")}
      [] gotype = "bool" -> {JBool("true"), JBool("false"), JNull, JStr("a")}
      [] gotype = "interface" -> {JStr("a"), JStr(""), JNull, JObj}
      [] gotype = "raw" -> {JObj}

MembersFor(schema) ==
    UNION {{Member(k, v) : v \in ValuesFor(schema[k])} : k \in DOMAIN schema}

\* A key no struct has.
UnknownMember == Member("max_tokens", JNum("5"))

SeqsUpTo(S, n) == UNION {[1..k -> S] : k \in 0..n}

ChatBodies ==
    {ObjectBody(ms) :
        ms \in SeqsUpTo(MembersFor(chatCompletionRequest) \cup {UnknownMember},
                        MaxMembers)}

BatchBodies ==
    {ObjectBody(ms) :
        ms \in SeqsUpTo(MembersFor(batchRequest) \cup {UnknownMember},
                        MaxMembers)}

\* Bodies that are no JSON object, or not JSON at all, and a few objects.
OtherBodies ==
    {<<>>, <<Garbage>>, <<NullTok>>, <<LBracket, RBracket>>,
     <<LBrace, Member("model", JStr("a"))>>,
     ObjectBody(<<Member("model", JStr("a")), Member("user", JStr("a"))>>),
     ObjectBody(<<Member("model", JStr("a")),
                  Member("endpoint", JStr("a"))>>)}

ChatURI == <<"/v1", "/chat", "/completions">>
LegacyURI == <<"/v1", "/completions">>
BatchURI == <<"/v1", "/batches">>
URIs ==
    {ChatURI, LegacyURI, BatchURI, <<"/health">>,
     ChatURI \o <<"?">> \o BatchURI,
     <<"/health", "?">> \o ChatURI}

\* Headers the client sends: none, or values for names the handler writes.
ClientHeaders ==
    {NoHeader,
     HeaderSet(HeaderSet(NoHeader, "x-openai-user", "client"),
               "x-openai-parse-failure", "client")}

ReadErrors == {"", "unexpected EOF"}

Request(method, uri, header, body) ==
    [Method |-> method, RequestURI |-> uri, Header |-> header, Body |-> body]

NoRequest == Request("", <<>>, NoHeader, Stream(<<>>, ""))

\* Every method, URI, client header and read outcome, on a few bodies.
AnyRequests ==
    {Request(m, u, hd, Stream(b, err)) :
        m \in {"POST", "GET"}, u \in URIs, hd \in ClientHeaders,
        b \in OtherBodies, err \in ReadErrors}

\* POST of every generated object body to the chat-completion URIs.
ChatRequests ==
    {Request("POST", u, NoHeader, Stream(b, "")) :
        u \in {ChatURI}, b \in ChatBodies}

\* POST of every generated batch body to the batch URI.
BatchRequests ==
    {Request("POST", BatchURI, NoHeader, Stream(b, "")) : b \in BatchBodies}

(***************************************************************************)
(* Configurations the handler is built from                                *)
(***************************************************************************)
Configs ==
    {NilConfig,
     \* newConfig() of the tests
     [CreateConfig EXCEPT !.RequestURIRegex = <<"/v1", ".*", "/completions">>],
     \* only the chat-completion and batch patterns, and a partial mapping
     Config([model |-> "X-OpenAI-Model", user |-> "X-OpenAI-User",
             endpoint |-> "X-OpenAI-Endpoint"],
            <<>>, ChatCompletionsPattern, BatchesPattern),
     \* no header mapping
     Config(NoHeader, <<>>, ChatCompletionsPattern, BatchesPattern),
     \* a batch pattern that does not compile
     Config(DefaultFields, ChatCompletionsPattern, ChatCompletionsPattern,
            <<"(", "/batches">>)}

\* Configurations that differ in their patterns only: each of the three
\* pattern keys unset, default, changed, or set to a pattern that does not
\* compile.
BadPattern == <<"(">>
PatternConfigs ==
    {Config(DefaultFields, generic, chat, batch) :
        generic \in {<<>>, ChatCompletionsPattern,
                     <<"/v1", ".*", "/completions">>, BadPattern},
        chat \in {<<>>, ChatCompletionsPattern, <<"/v1", "/completions">>,
                  BadPattern},
        batch \in {BatchesPattern, <<"(", "/batches">>}}

(***************************************************************************)
(* State machine                                                           *)
(***************************************************************************)
VARIABLES
    config, \* the Config New was called with
    e,      \* the Handler New returned
    req,    \* the request ServeHTTP was last called with, as it arrived
    res     \* that request after ServeHTTP, with what the next handler saw

vars == <<config, e, req, res>>

Idle ==
    [Header |-> NoHeader, Body |-> Stream(<<>>, ""), log |-> <<>>,
     status |-> 0, nextCalls |-> 0, nextHeader |-> NoHeader,
     nextBody |-> <<>>]

\* A handler built by New from config, before its first request.
Built(configs) ==
    /\ config \in configs
    /\ e = New(config)
    /\ req = NoRequest
    /\ res = Idle

Init == Built(Configs)

\* One call of e.ServeHTTP, from its first line to the return of the next
\* handler.
ServeHTTP(request) ==
    /\ req' = request
    /\ res' = Serve(e, request)
    /\ UNCHANGED <<config, e>>

\* No call is in progress.
Ready == req = NoRequest

ServeAny == Ready /\ \E request \in AnyRequests : ServeHTTP(request)
ServeChat == Ready /\ \E request \in ChatRequests : ServeHTTP(request)
ServeBatch == Ready /\ \E request \in BatchRequests : ServeHTTP(request)

\* ServeHTTP has returned: nothing of the request is kept, and the handler
\* is ready for the next one.
Return ==
    /\ req # NoRequest
    /\ req' = NoRequest
    /\ res' = Idle
    /\ UNCHANGED <<config, e>>

Next == ServeAny \/ ServeChat \/ ServeBatch \/ Return

Spec == Init /\ [][Next]_vars

\* The handler under every pattern configuration, serving one request at a
\* time.
InitConfig == Built(PatternConfigs)
NextConfig == ServeAny \/ Return
SpecConfig == InitConfig /\ [][NextConfig]_vars

(***************************************************************************)
(* Vocabulary of the properties                                            *)
(***************************************************************************)
Served == req # NoRequest
Original == req.Body.data
ReadFailed == req.Body.err # ""

\* The r.Header.Set calls of the handler, as positions of the log.
SetEvents == {i \in DOMAIN res.log : res.log[i].op = "Header.Set"}
Wrote(name) ==
    \E i \in SetEvents : res.log[i].name = CanonicalMIMEHeaderKey(name)
WroteValue(name, value) ==
    \E i \in SetEvents : /\ res.log[i].name = CanonicalMIMEHeaderKey(name)
                         /\ res.log[i].value = value
Did(op) == \E i \in DOMAIN res.log : res.log[i].op = op

\* The header name configured for a logical field.
HeaderOf(field) == Sprintf(e.requestFields, field)
Configured(field) == field \in DOMAIN e.requestFields

\* A POST with a non-empty body, read without error, that matches the
\* call-completion pattern only (the batch pattern only).
ChatOnly ==
    /\ Served /\ req.Method = "POST" /\ ~ReadFailed /\ Len(Original) > 0
    /\ isChatCompletionRequest(e, req) /\ ~isBatchRequest(e, req)
BatchOnly ==
    /\ Served /\ req.Method = "POST" /\ ~ReadFailed /\ Len(Original) > 0
    /\ isBatchRequest(e, req) /\ ~isChatCompletionRequest(e, req)

FullDecodeFails == Unmarshal(Original, chatCompletionRequest).err # ""
ModelOnlyDecodeFails ==
    Unmarshal(Original, chatCompletionModelOnlyRequest).err # ""

\* The members of an object body with a given key, and the value of the key
\* in the payload: that of its last occurrence.
Absent == [ty |-> "absent", lit |-> ""]
IsObject(data) == checkValid(data) /\ data[1] = LBrace
Occurrences(data, key) ==
    IF IsObject(data)
    THEN {i \in 2..(Len(data) - 1) : data[i].k = key}
    ELSE {}
PayloadValue(data, key) ==
    LET occ == Occurrences(data, key)
    IN  IF occ = {} THEN Absent
        ELSE data[CHOOSE i \in occ : \A j \in occ : j <= i].v

OptionalChatFields ==
    {"user", "temperature", "max_completion_tokens", "logprobs",
     "top_logprobs", "tool_choice", "frequency_penalty", "presence_penalty",
     "top_p", "stream"}
ChatFields == OptionalChatFields \cup {"model"}

(***************************************************************************)
(* Properties                                                              *)
(***************************************************************************)

\* C1: for a classified request whose body is read without error, the next
\* handler reads exactly the tokens that arrived, whatever was decoded and
\* however many headers were written.
C1_BodyReplay ==
    (Served /\ Classified(e, req) /\ ~ReadFailed)
        => (res.nextCalls = 1 /\ res.nextBody = Original)

\* C1 witness: a reduced-schema fallback (diagnostic, then model header) on
\* a non-empty body that the next handler read back whole.
C1_Witness ==
    /\ ChatOnly /\ FullDecodeFails /\ ~ModelOnlyDecodeFails
    /\ Configured("model") /\ Wrote(HeaderOf("model"))
    /\ Len(Original) > 2
    /\ res.nextBody = Original

\* C2: when reading the body of a classified request fails, the handler
\* answers with the internal-error status and stops: no header is written,
\* the body is not replaced and the next handler is not called.
C2_TransportErrorStops ==
    (Served /\ Classified(e, req) /\ ReadFailed)
        => /\ res.status = StatusInternalServerError
           /\ res.nextCalls = 0
           /\ SetEvents = {}
           /\ ~Did("Body.Replace")

\* C3: when the body read does not fail, the next handler is called exactly
\* once, as the last step: after every header write and after the body
\* replacement, so that it sees every header written.
C3_NextOnceAfterWrites ==
    (Served /\ ~ReadFailed)
        => /\ res.nextCalls = 1
           /\ Len(res.log) >= 1
           /\ res.log[Len(res.log)].op = "next.ServeHTTP"
           /\ \A i \in 1..(Len(res.log) - 1) : res.log[i].op # "next.ServeHTTP"
           /\ res.nextHeader = res.Header
           /\ \A i \in SetEvents : HeaderHas(res.nextHeader, res.log[i].name)

\* C3 witness: a total decode failure that still reached the next handler.
C3_Witness ==
    /\ ChatOnly /\ FullDecodeFails /\ ModelOnlyDecodeFails
    /\ WroteValue(ParseFailureHeader, "Unknown model")
    /\ Did("Body.Replace")
    /\ res.nextCalls = 1

\* C4: on a reduced-schema fallback (full decode fails, model-only decode
\* succeeds) the handler writes the model header, no diagnostic header and
\* no other per-field header.
C4_FallbackWritesModelOnly ==
    (ChatOnly /\ Configured("model") /\ FullDecodeFails
        /\ ~ModelOnlyDecodeFails)
        => /\ Wrote(HeaderOf("model"))
           /\ ~Wrote(ParseFailureHeader)
           /\ \A i \in SetEvents :
                 res.log[i].name = CanonicalMIMEHeaderKey(HeaderOf("model"))

\* C5: on a total decode failure (both decodes fail) the forwarded request
\* carries the diagnostic header "Unknown model" and the handler has
\* written no per-field header.
C5_TotalFailureDiagnosticOnly ==
    (ChatOnly /\ DOMAIN e.requestFields # {} /\ FullDecodeFails
        /\ ModelOnlyDecodeFails)
        => /\ HeaderGet(res.nextHeader, ParseFailureHeader) = "Unknown model"
           /\ \A i \in SetEvents :
                 res.log[i].name = CanonicalMIMEHeaderKey(ParseFailureHeader)

\* C6: for a classified POST with a body of zero bytes the only header the
\* handler writes is the diagnostic header with the value "empty body".
C6_EmptyBody ==
    (Served /\ Classified(e, req) /\ Len(Original) = 0)
        => /\ SetEvents # {}
           /\ \A i \in SetEvents :
                 /\ res.log[i].name = CanonicalMIMEHeaderKey(ParseFailureHeader)
                 /\ res.log[i].value = "empty body"
           /\ Cardinality(SetEvents) = 1
           /\ HeaderGet(res.nextHeader, ParseFailureHeader) = "empty body"

\* C6 witness: an empty POST on a URI that matches both patterns, with a
\* header mapping configured.
C6_Witness ==
    /\ Served /\ req.Method = "POST" /\ Len(Original) = 0 /\ ~ReadFailed
    /\ isChatCompletionRequest(e, req) /\ isBatchRequest(e, req)
    /\ DOMAIN e.requestFields # {}
    /\ WroteValue(ParseFailureHeader, "empty body")

\* A JSON value that is neither null nor the empty string.
NonEmptyValue(v) == v.ty \notin {"absent", "null"} /\ ~(v.ty = "string" /\ v.lit = "")

\* C7: on a successful full decode the model header is always written, with
\* the empty string when the payload has no model; every other field gets
\* a header only when the payload has a non-empty, non-null value for it,
\* and is never written with an empty value.
C7_OnlyModelMayBeEmpty ==
    (ChatOnly /\ ~FullDecodeFails /\ DOMAIN e.requestFields # {})
        => /\ Configured("model") =>
                /\ Wrote(HeaderOf("model"))
                /\ Occurrences(Original, "model") = {}
                      => WroteValue(HeaderOf("model"), "")
           /\ \A f \in OptionalChatFields :
                 Configured(f) =>
                    /\ Wrote(HeaderOf(f)) =>
                          \E i \in Occurrences(Original, f) :
                              NonEmptyValue(Original[i].v)
                    /\ ~WroteValue(HeaderOf(f), "")

\* Every member other than tool_choice has a value of its field's type.
OthersWellTyped(data) ==
    \A i \in 2..(Len(data) - 1) :
        (data[i].k \in DOMAIN chatCompletionRequest /\ data[i].k # "tool_choice")
            => Fits(chatCompletionRequest[data[i].k], data[i].v)

\* C8: for a valid JSON body the tool-choice header is written exactly when
\* the payload's tool_choice is a JSON string, with that string as value;
\* a tool_choice object does not fail the decode: no diagnostic header, no
\* tool-choice header, and the model header is written.
C8_ToolChoiceStringOnly ==
    (ChatOnly /\ checkValid(Original) /\ Configured("tool_choice"))
        => LET tc == PayloadValue(Original, "tool_choice")
               name == HeaderOf("tool_choice")
           IN  /\ Wrote(name) <=> tc.ty = "string"
               /\ tc.ty = "string" =>
                     /\ HeaderGet(res.nextHeader, name) = tc.lit
                     /\ \A i \in SetEvents :
                           res.log[i].name = CanonicalMIMEHeaderKey(name)
                               => res.log[i].value = tc.lit
               /\ (tc.ty = "object" /\ OthersWellTyped(Original)
                       /\ Configured("model")) =>
                     /\ ~Wrote(ParseFailureHeader)
                     /\ ~Wrote(name)
                     /\ Wrote(HeaderOf("model"))

\* C8 witness: a payload with a tool_choice object and a model, forwarded
\* with the model header and without diagnostic or tool-choice header.
C8_Witness ==
    /\ ChatOnly /\ Configured("tool_choice") /\ Configured("model")
    /\ PayloadValue(Original, "tool_choice") = JObj
    /\ PayloadValue(Original, "model") = JStr("a")
    /\ WroteValue(HeaderOf("model"), "a")
    /\ ~Wrote(HeaderOf("tool_choice"))
    /\ ~Wrote(ParseFailureHeader)

PresenceFields ==
    {"temperature", "top_p", "presence_penalty", "frequency_penalty",
     "max_completion_tokens", "logprobs", "top_logprobs", "stream"}

\* C9: on a successful full decode, the header of each numeric or boolean
\* optional field is written if and only if the payload's value for the key
\* is present and not null; an explicit zero is written as "0" and an
\* explicit false as "false".
C9_PresenceTracking ==
    (ChatOnly /\ ~FullDecodeFails)
        => \A f \in PresenceFields :
              Configured(f) =>
                 LET v == PayloadValue(Original, f)
                 IN  /\ Wrote(HeaderOf(f)) <=> v.ty \notin {"absent", "null"}
                     /\ v = JNum("0") =>
                           HeaderGet(res.nextHeader, HeaderOf(f)) = "0"
                     /\ v = JBool("false") =>
                           HeaderGet(res.nextHeader, HeaderOf(f)) = "false"

\* C9 witness: an explicit zero temperature and an explicit false stream,
\* both written.
C9_Witness ==
    /\ ChatOnly /\ ~FullDecodeFails
    /\ Configured("temperature") /\ Configured("stream")
    /\ PayloadValue(Original, "temperature") = JNum("0")
    /\ PayloadValue(Original, "stream") = JBool("false")
    /\ HeaderGet(res.nextHeader, HeaderOf("temperature")) = "0"
    /\ HeaderGet(res.nextHeader, HeaderOf("stream")) = "false"

\* C10: on a successful batch decode the completion-window and endpoint
\* headers are written with the payload's string when the field is present
\* and non-empty, and a field that is absent or empty writes no header.
C10_BatchHeadersOnlyWhenPresent ==
    (BatchOnly /\ Unmarshal(Original, batchRequest).err = "")
        => \A f \in {"completion_window", "endpoint"} :
              Configured(f) =>
                 /\ NonEmptyValue(PayloadValue(Original, f))
                       => WroteValue(HeaderOf(f), PayloadValue(Original, f).lit)
                 /\ Wrote(HeaderOf(f)) =>
                       \E i \in Occurrences(Original, f) :
                           NonEmptyValue(Original[i].v)

\* C11: a non-empty body on a path that matches only the batch pattern and
\* does not decode against the batch schema makes the handler write exactly
\* one header, the parse-failure header with the decoder's error text;
\* neither the completion-window nor the endpoint header is written and no
\* reduced decode replaces the diagnostic.
BatchDecodeFails == Unmarshal(Original, batchRequest).err # ""

PassThrough ==
    /\ Served
    /\ \/ req.Method # "POST"
       \/ ~isChatCompletionRequest(e, req) /\ ~isBatchRequest(e, req)

C12_PassThroughUntouched ==
    PassThrough
        => /\ ~Did("io.ReadAll") /\ ~Did("Body.Replace")
           /\ ~Did("Header.Set") /\ ~Did("http.Error")
           /\ res.log = <<Event("next.ServeHTTP", "", "")>>
           /\ res.status = 0
           /\ res.nextCalls = 1
           /\ res.Header = req.Header
           /\ res.nextHeader = req.Header
           /\ res.nextBody = Original

\* C12 witness: a GET on the call-completion path that carries client
\* headers and a body whose stream would fail when read.
C12_Witness ==
    /\ PassThrough /\ req.Method = "GET" /\ isChatCompletionRequest(e, req)
    /\ ReadFailed /\ Len(Original) > 0 /\ req.Header # NoHeader
    /\ res.nextCalls = 1 /\ res.nextHeader = req.Header
    /\ res.nextBody = Original

\* The path component of a request target: what precedes the first "?".
PathOf(uri) ==
    LET marks == {i \in DOMAIN uri : uri[i] = "?"}
    IN  IF marks = {} THEN uri
        ELSE SubSeq(uri, 1, (CHOOSE i \in marks : \A j \in marks : i <= j) - 1)
WithoutQuery == [req EXCEPT !.RequestURI = PathOf(@)]

\* C13: a POST is classified by the path component of its URI alone: it
\* matches the same schemas as the request with the same path and no query
\* string (hence as any request with the same path), and a request whose
\* path matches neither pattern is passed through whatever its query is.
C13_ClassifiedByPathOnly ==
    (Served /\ req.Method = "POST")
        => /\ isChatCompletionRequest(e, req)
                 = isChatCompletionRequest(e, WithoutQuery)
           /\ isBatchRequest(e, req) = isBatchRequest(e, WithoutQuery)
           /\ ~Classified(e, WithoutQuery)
                 => res.log = <<Event("next.ServeHTTP", "", "")>>

\* A pattern that compiles and matches somewhere in the URI.
Matches(pattern, uri) ==
    /\ Compiles(pattern)
    /\ \E k \in 0..Len(uri) : MatchHere(pattern, SubSeq(uri, k + 1, Len(uri)))
BrokenPattern ==
    ~Compiles(e.requestURIRegex) \/ ~Compiles(e.batchRequestURIRegex)

\* C14: a pattern that does not compile is never fatal.  The schema it
\* belongs to matches no request, the other schema's pattern still decides
\* whether the request is inspected, the parse-failure header is written
\* only for an empty body or a failed decode (never with the pattern
\* error), and the request is handed to the next handler once.
C14_BrokenPatternNeverFatal ==
    (Served /\ BrokenPattern)
        => LET chat == Matches(e.requestURIRegex, req.RequestURI)
               batch == Matches(e.batchRequestURIRegex, req.RequestURI)
               inspected == req.Method = "POST" /\ (chat \/ batch)
           IN  /\ res.nextCalls = 1
               /\ res.log[Len(res.log)].op = "next.ServeHTTP"
               /\ Did("io.ReadAll") <=> inspected
               /\ ~inspected => ~Did("Header.Set")
               /\ (inspected /\ ~ReadFailed /\ Len(Original) > 0)
                     => /\ chat => Wrote(HeaderOf("model"))
                                      \/ WroteValue(ParseFailureHeader,
                                                    "Unknown model")
                        /\ batch /\ ~chat
                              => Wrote(ParseFailureHeader) = BatchDecodeFails
               /\ \A i \in SetEvents :
                     \A p \in {e.requestURIRegex, e.batchRequestURIRegex} :
                        ~Compiles(p)
                           => res.log[i].value
                                 # MatchString(p, req.RequestURI).err

\* C14 witness: the batch pattern does not compile, and a POST on the
\* call-completion path with a model still gets its model header and
\* reaches the next handler without a diagnostic.
C14_Witness ==
    /\ Served /\ req.Method = "POST" /\ ~ReadFailed
    /\ ~Compiles(e.batchRequestURIRegex)
    /\ Matches(e.requestURIRegex, req.RequestURI)
    /\ PayloadValue(Original, "model") = JStr("a")
    /\ HeaderGet(res.nextHeader, HeaderOf("model")) = "a"
    /\ ~Wrote(ParseFailureHeader)
    /\ res.nextCalls = 1

\* C15: the chat-completion pattern of the handler is the configuration's
\* explicit chat-completion pattern whenever that is set, also when the
\* generic pattern is set as well (as in CreateConfig with only the
\* chat-completion pattern changed); the generic pattern is used only when
\* no chat-completion pattern is configured.  A POST is therefore inspected
\* exactly when the explicit pattern (or the batch pattern) matches its URI.
C15_ExplicitChatPatternWins ==
    LET chatCompletionUri == IF config.ChatCompletionUriRegex # <<>>
                             THEN config.ChatCompletionUriRegex
                             ELSE config.RequestURIRegex
    IN  (Served /\ ~config.isNil)
           => /\ e.requestURIRegex = chatCompletionUri
              /\ req.Method = "POST"
                    => Did("io.ReadAll")
                          = (Matches(chatCompletionUri, req.RequestURI)
                             \/ Matches(config.BatchUriRegex, req.RequestURI))

\* A POST with a non-empty body, read without error, whose URI matches both
\* patterns, under a non-empty mapping.
BothMatch ==
    /\ Served /\ req.Method = "POST" /\ ~ReadFailed /\ Len(Original) > 0
    /\ isChatCompletionRequest(e, req) /\ isBatchRequest(e, req)
    /\ DOMAIN e.requestFields # {}
SetLog(log) == SelectSeq(log, LAMBDA ev : ev.op = "Header.Set")
\* The request with no header set and nothing done yet.
Untouched == [res EXCEPT !.Header = NoHeader, !.log = <<>>]

C17_HeaderNamesFromConfig ==
    (Served /\ DOMAIN e.requestFields # {})
        => \A i \in SetEvents :
              res.log[i].name
                 \in {CanonicalMIMEHeaderKey(ParseFailureHeader)}
                     \cup {CanonicalMIMEHeaderKey(e.requestFields[f]) :
                              f \in DOMAIN e.requestFields}

\* The header names the next handler reads the inspection results from.
InspectionHeaders ==
    {ParseFailureHeader} \cup {e.requestFields[f] : f \in DOMAIN e.requestFields}
\* The same request sent without any of those headers.
WithoutClientHeaders == [req EXCEPT !.Header = NoHeader]

\* C18: for a classified POST under a non-empty mapping the values the next handler sees for the
\* mapped headers and for the parse-failure header depend on the body
\* only: they are the values it sees for the same method, URI and body sent
\* without client values for those names (so any two such requests agree),
\* and each such header that reaches the next handler was written by the
\* handler with that value.
C18_ForwardedHeadersFromBodyOnly ==
    (Served /\ Classified(e, req) /\ ~ReadFailed
        /\ DOMAIN e.requestFields # {})
        => \A name \in InspectionHeaders :
              /\ HeaderHas(res.nextHeader, name)
                    = HeaderHas(Serve(e, WithoutClientHeaders).nextHeader, name)
              /\ HeaderGet(res.nextHeader, name)
                    = HeaderGet(Serve(e, WithoutClientHeaders).nextHeader, name)
              /\ HeaderHas(res.nextHeader, name)
                    => WroteValue(name, HeaderGet(res.nextHeader, name))

====
